---- MODULE Spec2Model ----
(***************************************************************************)
(* A model of ctftools/xortools.py: the interactive crib-drag session      *)
(* (cribdrag), the embedded-key recovery (keyinplaintext), the charset     *)
(* pruner (findkeychars), the key enumerator (findkeys / findkey), the     *)
(* key-length resolver (findkeylen) and the Hamming analyzer               *)
(* (findkeylen_all).                                                       *)
(*                                                                         *)
(* Bytes are the integers 0..255.  Python indices are kept 0-based in the  *)
(* variables; a TLA+ sequence s holds Python's s[i] at s[i+1].             *)
(* Each function of the source has its own specification (SpecSession,     *)
(* SpecRecover, ...); the variables of the other functions stay idle.      *)
(***************************************************************************)
EXTENDS Integers, Sequences, FiniteSets, TLC

VARIABLES
    \* ---- cribdrag (the session) ----
    ciphertext,   \* argument: the ciphertext, a sequence of bytes
    keylen,       \* argument: the key length
    crib,         \* local: the current crib, a sequence of bytes ('' is <<>>)
    cribindex,    \* local: the crib's position in the ciphertext
    key,          \* local: the permanent key, keylen entries
    curr_key,     \* local: the preview key update_and_print_ rebuilds
    report,       \* what the command processed last printed
    status,       \* "running", "returned", or the exception that ended the call
    \* ---- one record per other function: its arguments and locals ----
    kp,           \* keyinplaintext
    fc,           \* findkeychars
    fk,           \* findkeys / findkey
    fl,           \* findkeylen
    fa            \* findkeylen_all

others == <<kp, fc, fk, fl, fa>>
vars == <<ciphertext, keylen, crib, cribindex, key, curr_key, report, status,
          kp, fc, fk, fl, fa>>

----------------------------------------------------------------------------
(* Bounds of the model *)

MaxCtLen == 2        \* session: longest ciphertext
MaxKeyLen == 2       \* session: largest key length
MaxRecKeyLen == 4    \* keyinplaintext: largest key length
MaxKeyIndex == 5     \* keyinplaintext: largest keyindex
MaxPrunerLen == 3    \* findkeychars: longest ciphertext
MaxPrunerKeyLen == 2 \* findkeychars: largest key length
MaxEnumCols == 3     \* findkeys: most columns of candidates
MaxLengths == 6      \* findkeylen: most candidate lengths in the scored list
MaxHamLen == 6       \* findkeylen_all: longest ciphertext
MaxComp == 4         \* findkeylen_all: largest maxcompperlen

(* Program constants *)

ByteBits == 8        \* bits of a byte, hamming_distance's range(8)
KeySpace == 256      \* findkeychars' range(256)

None == -1           \* Python's None in a key slot
Junk == -2           \* a key-list entry that is neither None nor a character (say 1)

Byte == 0 .. (KeySpace - 1)

----------------------------------------------------------------------------
(* Helpers *)

Max(S) == CHOOSE x \in S : \A y \in S : y <= x
Min(S) == CHOOSE x \in S : \A y \in S : x <= y

(* the greatest common divisor, by its definition *)
Gcd(a, b) == Max({d \in 1..Max({a, b, 1}) : a % d = 0 /\ b % d = 0})

SeqsUpTo(S, n) == UNION {[1..m -> S] : m \in 0..n}

RECURSIVE XorBits(_, _, _)
XorBits(a, b, n) ==
    IF n = 0 THEN 0
    ELSE (((a % 2) + (b % 2)) % 2) + 2 * XorBits(a \div 2, b \div 2, n - 1)

(* utils.xor on two single bytes: the default combiner, bitwise XOR *)
xor(a, b) == XorBits(a, b, ByteBits)

(* decfunc and keyfunc default to xor (keyfunc = decfunc when None) *)
decfunc(c, k) == xor(c, k)

(* xor of a character with a value that is no character raises TypeError *)
decfuncRaises(c, k) == k \notin Byte
keyfunc(c, p) == decfunc(c, p)

----------------------------------------------------------------------------
(* cribdrag *)

(* The ciphertext of the session: a prefix of XOR("THEFLAGIS42", "KEY") *)
SamplePlain == <<84, 72, 69, 70, 76, 65, 71, 73, 83, 52, 50>>
SampleKey == <<75, 69, 89>>
SampleCipher == [i \in 1..Len(SamplePlain) |->
                    xor(SamplePlain[i], SampleKey[((i - 1) % Len(SampleKey)) + 1])]

(* what a typed key list holds in slot j: None, a non-character, or a character *)
KeyEntry(m, j) ==
    CASE m = 0 -> None
      [] m = 1 -> Junk
      [] OTHER -> SampleKey[((j - 1) % Len(SampleKey)) + 1]

(* getkey raises IndexError at ciphertext[cribindex + i] *)
GetkeyRaises(ct, cr, ci) == \E i \in 0..(Len(cr) - 1) : ci + i >= Len(ct)

(* getkey: the key slots a crib at cribindex implies; later i overwrite earlier *)
getkey(ct, kl, cr, ci) ==
    [j \in 1..kl |->
        LET hits == {i \in 0..(Len(cr) - 1) : (ci + i) % kl = j - 1}
        IN IF hits = {} THEN None
           ELSE LET i == Max(hits) IN keyfunc(ct[ci + i + 1], cr[i + 1])]

(* the merge of update_and_print_: the crib's key over the permanent key *)
CurrKey(cribkey, k) ==
    [j \in 1..Len(k) |-> IF cribkey[j] # None THEN cribkey[j] ELSE k[j]]

(* a merge that lets the permanent key win over the crib's key *)
NewKeyKeepsOld(cribkey, k) ==
    [j \in 1..Len(k) |-> IF k[j] # None THEN k[j] ELSE cribkey[j]]

(* the merge of the ok branch *)
NewKey(cribkey, k) ==
    [j \in 1..Len(k) |-> IF cribkey[j] # None THEN cribkey[j] ELSE k[j]]

(* decrypt: '*' for an unknown slot, decfunc(ciphertext[i], key[i % keylen]) *)
(* for the others; the TypeError of decfunc ends it                          *)
DecryptRaises(ct, kl, k) ==
    \E i \in 0..(Len(ct) - 1) :
        k[(i % kl) + 1] # None /\ decfuncRaises(ct[i + 1], k[(i % kl) + 1])

(* update_and_print_: what it leaves in curr_key, and how it ends *)
UpdatedCurrKey(ct, kl, cr, ci, k) ==
    IF GetkeyRaises(ct, cr, ci) THEN <<>>
    ELSE CurrKey(getkey(ct, kl, cr, ci), k)

UpdateOutcome(ct, kl, cr, ci, k) ==
    IF GetkeyRaises(ct, cr, ci) THEN "IndexError"
    ELSE IF DecryptRaises(ct, kl, UpdatedCurrKey(ct, kl, cr, ci, k)) THEN "TypeError"
    ELSE "shown"

Idle == [pc |-> "idle"]
OthersIdle == kp = Idle /\ fc = Idle /\ fk = Idle /\ fl = Idle /\ fa = Idle

InitSession ==
    /\ \E n \in 1..MaxCtLen : ciphertext = SubSeq(SampleCipher, 1, n)
    /\ keylen \in 1..MaxKeyLen
    /\ crib = <<>>
    /\ cribindex = 0
    /\ key = [j \in 1..keylen |-> None]
    /\ curr_key = [j \in 1..keylen |-> None]
    /\ report = "shown"
    /\ status = "running"
    /\ OthersIdle

Help ==
    /\ status = "running"
    /\ UNCHANGED others
    /\ report' = "Commands:"
    /\ UNCHANGED <<ciphertext, keylen, crib, cribindex, key, curr_key, status>>

(* crib <literal>: lit is what ast.literal_eval makes of the argument *)
Crib(lit) ==
    /\ status = "running"
    /\ UNCHANGED others
    /\ UNCHANGED <<ciphertext, keylen, key>>
    /\ LET newcrib == lit[2] IN
       IF lit[1] = "malformed" THEN
            /\ report' = "Couldn't parse the crib!"
            /\ UNCHANGED <<crib, cribindex, curr_key, status>>
       ELSE IF lit[1] # "str" THEN
            /\ report' = "The crib must be a string!"
            /\ UNCHANGED <<crib, cribindex, curr_key, status>>
       ELSE IF Len(newcrib) > keylen THEN
            /\ report' = "The crib is longer than the key!"
            /\ UNCHANGED <<crib, cribindex, curr_key, status>>
       ELSE LET out == UpdateOutcome(ciphertext, keylen, newcrib, 0, key) IN
            /\ crib' = newcrib
            /\ cribindex' = 0
            /\ curr_key' = UpdatedCurrKey(ciphertext, keylen, newcrib, 0, key)
            /\ status' = IF out = "IndexError" THEN "IndexError" ELSE "running"
            /\ report' = CASE out = "shown" -> "shown"
                           [] out = "TypeError" -> "Couldn't parse the crib!"
                           [] OTHER -> "Traceback"

(* what next, prev and jump do once the new index is accepted *)
MoveTo(newindex) ==
    LET out == UpdateOutcome(ciphertext, keylen, crib, newindex, key) IN
    /\ cribindex' = newindex
    /\ curr_key' = UpdatedCurrKey(ciphertext, keylen, crib, newindex, key)
    /\ status' = IF out = "shown" THEN "running" ELSE out
    /\ report' = IF out = "shown" THEN "shown" ELSE "Traceback"

NextCmd ==
    /\ status = "running"
    /\ UNCHANGED others
    /\ UNCHANGED <<ciphertext, keylen, crib, key>>
    /\ IF crib = <<>> THEN
            /\ report' = "You need to set a crib."
            /\ UNCHANGED <<cribindex, curr_key, status>>
       ELSE IF cribindex = Len(ciphertext) - Len(crib) THEN
            /\ report' = "Can't increase the index or the crib won't fit."
            /\ UNCHANGED <<cribindex, curr_key, status>>
       ELSE MoveTo(cribindex + 1)

Prev ==
    /\ status = "running"
    /\ UNCHANGED others
    /\ UNCHANGED <<ciphertext, keylen, crib, key>>
    /\ IF crib = <<>> THEN
            /\ report' = "You need to set a crib."
            /\ UNCHANGED <<cribindex, curr_key, status>>
       ELSE IF cribindex = 0 THEN
            /\ report' = "Can't set the index at less than 0."
            /\ UNCHANGED <<cribindex, curr_key, status>>
       ELSE MoveTo(cribindex - 1)

(* jump <index>: int(argument) raises ValueError unless the text is an integer *)
Jump(lit) ==
    /\ status = "running"
    /\ UNCHANGED others
    /\ UNCHANGED <<ciphertext, keylen, crib, key>>
    /\ IF crib = <<>> THEN
            /\ report' = "You need to set a crib."
            /\ UNCHANGED <<cribindex, curr_key, status>>
       ELSE IF lit[1] # "int" THEN
            /\ report' = ""
            /\ UNCHANGED <<cribindex, curr_key, status>>
       ELSE IF lit[2][1] < 0 THEN
            /\ report' = "The index must be a positive number."
            /\ UNCHANGED <<cribindex, curr_key, status>>
       ELSE IF lit[2][1] > Len(ciphertext) - Len(crib) THEN
            /\ report' = "That index is too big, the crib won't fit."
            /\ UNCHANGED <<cribindex, curr_key, status>>
       ELSE MoveTo(lit[2][1])

Ok ==
    /\ status = "running"
    /\ UNCHANGED others
    /\ key' = NewKey(getkey(ciphertext, keylen, crib, cribindex), key)
    /\ crib' = <<>>
    /\ cribindex' = 0
    /\ report' = "Key updated: / Crib reset."
    /\ UNCHANGED <<ciphertext, keylen, curr_key, status>>

(* key <literal> *)
Key(lit) ==
    /\ status = "running"
    /\ UNCHANGED others
    /\ UNCHANGED <<ciphertext, keylen, crib, cribindex>>
    /\ LET newkey == lit[2] IN
       IF lit[1] = "malformed" THEN
            /\ report' = "Couldn't parse the key!"
            /\ UNCHANGED <<key, curr_key, status>>
       ELSE IF lit[1] # "list" THEN
            /\ report' = "The argument must be passed as a list!"
            /\ UNCHANGED <<key, curr_key, status>>
       ELSE IF Len(newkey) # keylen THEN
            /\ report' = "The key must be keylen characters long!"
            /\ UNCHANGED <<key, curr_key, status>>
       ELSE LET out == UpdateOutcome(ciphertext, keylen, crib, cribindex, newkey) IN
            /\ key' = newkey
            /\ curr_key' = UpdatedCurrKey(ciphertext, keylen, crib, cribindex, newkey)
            /\ status' = IF out = "IndexError" THEN "IndexError" ELSE "running"
            /\ report' = CASE out = "shown" -> "Key updated."
                           [] out = "TypeError" -> "Couldn't parse the key!"
                           [] OTHER -> "Traceback"

Show ==
    /\ status = "running"
    /\ UNCHANGED others
    /\ IF DecryptRaises(ciphertext, keylen, key)
       THEN status' = "TypeError" /\ report' = "Traceback"
       ELSE status' = "running" /\ report' = "plaintext"
    /\ UNCHANGED <<ciphertext, keylen, crib, cribindex, key, curr_key>>

Reset ==
    /\ status = "running"
    /\ UNCHANGED others
    /\ crib' = <<>>
    /\ cribindex' = 0
    /\ key' = [j \in 1..keylen |-> None]
    /\ report' = "Crib and key have been reset."
    /\ UNCHANGED <<ciphertext, keylen, curr_key, status>>

Unknown ==
    /\ status = "running"
    /\ UNCHANGED others
    /\ report' = "Command not recognized."
    /\ UNCHANGED <<ciphertext, keylen, crib, cribindex, key, curr_key, status>>

Quit ==
    /\ status = "running"
    /\ UNCHANGED others
    /\ status' = "returned"
    /\ report' = "return key"
    /\ UNCHANGED <<ciphertext, keylen, crib, cribindex, key, curr_key>>

(* the arguments an operator types: cribs are the first characters of the   *)
(* plaintext (one of them a character too long), key lists have keylen      *)
(* entries or one more or less                                              *)
CribArgs == {<<"str", SubSeq(SamplePlain, 1, n)>> : n \in 0..(keylen + 1)}
               \cup {<<"int", <<0>>>>, <<"malformed", <<>>>>}
JumpArgs == {<<"int", <<n>>>> : n \in (-1)..(Len(ciphertext) + 1)}
               \cup {<<"malformed", <<>>>>}
KeyArgs == {<<"list", [j \in 1..keylen |-> KeyEntry(m[j], j)]>> : m \in [1..keylen -> 0..2]}
               \cup {<<"list", [i \in 1..(keylen + 1) |-> None]>>,
                     <<"list", [i \in 1..(keylen - 1) |-> None]>>,
                     <<"str", <<>>>>, <<"malformed", <<>>>>}

NextSession ==
    \/ Help
    \/ \E lit \in CribArgs : Crib(lit)
    \/ NextCmd
    \/ Prev
    \/ \E lit \in JumpArgs : Jump(lit)
    \/ Ok
    \/ \E lit \in KeyArgs : Key(lit)
    \/ Show
    \/ Reset
    \/ Unknown
    \/ Quit

SpecSession == InitSession /\ [][NextSession]_vars

----------------------------------------------------------------------------
(* keyinplaintext *)

(* The keys of the runs: the first characters of "KEYS1", and keys over 'K', 'E' *)
RecKeyChars == <<75, 69, 89, 83, 49>>
RecKeys(L) == {[i \in 1..L |-> RecKeyChars[((i - 1) % Len(RecKeyChars)) + 1]]}
                 \cup [1..L -> {75, 69}]

(* A plaintext of n characters holding the key K at offset ki, as far as it fits *)
PlainWithKey(K, ki, n) ==
    [p \in 1..n |->
        IF p - 1 >= ki /\ p - 1 < ki + Len(K) THEN K[p - ki]
        ELSE SamplePlain[((p - 1) % Len(SamplePlain)) + 1]]

(* utils.xor of a text with a key repeated along it *)
Encrypt(P, K) == [p \in 1..Len(P) |-> xor(P[p], K[((p - 1) % Len(K)) + 1])]

Known(k) == {j \in 0..(Len(k) - 1) : k[j + 1] # None}

SeedSlot(si, L) == si % L

TargetSlotNext(i, ki, L) == (i + 1) % L

TargetSlot(i, ki, L) == (i + ki) % L

RecoverByteNoOffset(ct, ki, i, kv) == decfunc(ct[i + 1], kv)

RecoverByte(ct, ki, i, kv) == decfunc(ct[ki + i + 1], kv)

InitRecover ==
    /\ \E L \in 1..MaxRecKeyLen, ki \in 0..MaxKeyIndex, extra \in {-1, 0, 1},
          wrong \in BOOLEAN :
         \E K \in RecKeys(L) :
           LET n == ki + L + extra
               P == PlainWithKey(K, ki, n)
           IN \E si \in 0..n :
                kp = [pc |-> "start",
                      K |-> K, plain |-> P,
                      ciphertext |-> Encrypt(P, K),
                      keylen |-> L, keyindex |-> ki,
                      seed |-> IF si >= n THEN 84
                               ELSE IF wrong THEN (P[si + 1] + 1) % KeySpace
                               ELSE P[si + 1],
                      seedindex |-> si,
                      key |-> <<>>, round |-> 0]
    /\ fc = Idle /\ fk = Idle /\ fl = Idle /\ fa = Idle
    /\ ciphertext = <<>> /\ keylen = 0 /\ crib = <<>> /\ cribindex = 0
    /\ key = <<>> /\ curr_key = <<>> /\ report = "" /\ status = "idle"

kpOthers == <<ciphertext, keylen, crib, cribindex, key, curr_key, report, status,
              fc, fk, fl, fa>>

(* the precondition and the seed *)
KPStart ==
    /\ kp.pc = "start"
    /\ UNCHANGED kpOthers
    /\ IF kp.keyindex % kp.keylen = 0 THEN
            kp' = [kp EXCEPT !.pc = "ValueError"]
       ELSE IF kp.seedindex >= Len(kp.ciphertext) THEN
            kp' = [kp EXCEPT !.pc = "IndexError",
                             !.key = [j \in 1..kp.keylen |-> None]]
       ELSE kp' = [kp EXCEPT
                !.pc = "loop",
                !.key = [j \in 1..kp.keylen |->
                            IF j - 1 = SeedSlot(kp.seedindex, kp.keylen)
                            THEN keyfunc(kp.ciphertext[kp.seedindex + 1], kp.seed)
                            ELSE None]]

(* one pass of "for _ in range(keylen)": newkey from the slots key knows *)
KPRound ==
    /\ kp.pc = "loop"
    /\ kp.round < kp.keylen
    /\ UNCHANGED kpOthers
    /\ IF \E i \in Known(kp.key) : kp.keyindex + i >= Len(kp.ciphertext) THEN
            kp' = [kp EXCEPT !.pc = "IndexError"]
       ELSE kp' = [kp EXCEPT
                !.round = kp.round + 1,
                !.key = [j \in 1..kp.keylen |->
                    LET from == {i \in Known(kp.key) :
                                    TargetSlot(i, kp.keyindex, kp.keylen) = j - 1}
                    IN IF from = {} THEN kp.key[j]
                       ELSE LET i == Max(from)
                            IN RecoverByte(kp.ciphertext, kp.keyindex, i, kp.key[i + 1])]]

(* "assert None not in key" (or, with asserts stripped, join's TypeError) *)
KPFinish ==
    /\ kp.pc = "loop"
    /\ kp.round = kp.keylen
    /\ UNCHANGED kpOthers
    /\ IF None \in {kp.key[j] : j \in 1..kp.keylen}
       THEN \E e \in {"AssertionError", "TypeError"} : kp' = [kp EXCEPT !.pc = e]
       ELSE kp' = [kp EXCEPT !.pc = "returned"]

NextRecover == KPStart \/ KPRound \/ KPFinish

SpecRecover == InitRecover /\ [][NextRecover]_vars

----------------------------------------------------------------------------
(* findkeychars *)

(* utils.columnify: column j holds the bytes at the positions = j (mod n) *)
columnify(ct, n) ==
    [j \in 1..n |->
        LET cnt == IF Len(ct) >= j THEN ((Len(ct) - j) \div n) + 1 ELSE 0
        IN [m \in 1..cnt |-> ct[j + (m - 1) * n]]]

OkSetKeyInCharset(char, charset) == {k \in Byte : k \in charset}

(* ok_set: the key values under which char decrypts into the charset *)
OkSet(char, charset) == {k \in Byte : decfunc(char, k) \in charset}

(* good_chars is a chain of lazy filters over range(256); each filter's       *)
(* lambda reads the variable ok_set when the chain is consumed, by sorted()   *)
GoodChars(pending, ok_set) == IF pending = 0 THEN Byte ELSE Byte \cap ok_set

PrunerPlainChars == {65, 32}
PrunerCharsets == {{65, 32}, {65}, {65, 32, 69}}

InitPruner ==
    /\ \E n \in 0..MaxPrunerLen, L \in 1..MaxPrunerKeyLen :
         \E P \in [1..n -> PrunerPlainChars], K \in [1..L -> {75, 69}],
            cs \in PrunerCharsets :
                fc = [pc |-> "column",
                      plain |-> P, K |-> K,
                      ciphertext |-> Encrypt(P, K),
                      keylen |-> L,
                      charset |-> cs,
                      columns |-> columnify(Encrypt(P, K), L),
                      col |-> 0,        \* columns done
                      pos |-> 0,        \* characters of the column done
                      pending |-> 0,    \* filters stacked on good_chars
                      ok_set |-> {},
                      result |-> <<>>]
    /\ kp = Idle /\ fk = Idle /\ fl = Idle /\ fa = Idle
    /\ ciphertext = <<>> /\ keylen = 0 /\ crib = <<>> /\ cribindex = 0
    /\ key = <<>> /\ curr_key = <<>> /\ report = "" /\ status = "idle"

fcOthers == <<ciphertext, keylen, crib, cribindex, key, curr_key, report, status,
              kp, fk, fl, fa>>

(* "for char in column": a new ok_set, one more filter on good_chars *)
FCChar ==
    /\ fc.pc = "column"
    /\ fc.col < fc.keylen
    /\ fc.pos < Len(fc.columns[fc.col + 1])
    /\ UNCHANGED fcOthers
    /\ fc' = [fc EXCEPT
            !.ok_set = OkSet(fc.columns[fc.col + 1][fc.pos + 1], fc.charset),
            !.pending = fc.pending + 1,
            !.pos = fc.pos + 1]

(* sorted(good_chars, key=fitnessfunc)[::-1] consumes the chain; the ranking  *)
(* orders the survivors and is kept out of the model: result holds their set  *)
FCRank ==
    /\ fc.pc = "column"
    /\ fc.col < fc.keylen
    /\ fc.pos = Len(fc.columns[fc.col + 1])
    /\ UNCHANGED fcOthers
    /\ fc' = [fc EXCEPT
            !.result = Append(fc.result, GoodChars(fc.pending, fc.ok_set)),
            !.col = fc.col + 1,
            !.pos = 0,
            !.pending = 0]

FCReturn ==
    /\ fc.pc = "column"
    /\ fc.col = fc.keylen
    /\ UNCHANGED fcOthers
    /\ fc' = [fc EXCEPT !.pc = "returned"]

NextPruner == FCChar \/ FCRank \/ FCReturn

SpecPruner == InitPruner /\ [][NextPruner]_vars

----------------------------------------------------------------------------
(* Claims about findkeychars *)

(* C6: for every column j the candidates returned are exactly the key bytes   *)
(* k under which every ciphertext byte of the column decrypts into charset.   *)
C6_PrunerExact ==
    fc.pc = "returned" =>
        \A j \in 1..fc.keylen :
            fc.result[j] =
                {k \in Byte :
                    \A p \in 1..Len(fc.ciphertext) :
                        (p - 1) % fc.keylen = j - 1 =>
                            xor(fc.ciphertext[p], k) \in fc.charset}

(* C7: when every plaintext byte lies in charset and the ciphertext is the    *)
(* plaintext XOR K repeated, K[j] is a candidate of column j, for every j.    *)
C7_PrunerSound ==
    (/\ fc.pc = "returned"
     /\ \A p \in 1..Len(fc.plain) : fc.plain[p] \in fc.charset
     /\ \A p \in 1..Len(fc.plain) :
           fc.ciphertext[p] = xor(fc.plain[p], fc.K[((p - 1) % fc.keylen) + 1]))
        => \A j \in 1..fc.keylen : fc.K[j] \in fc.result[j]

(* "A A" under the key "KE" with the charset {'A', ' '}: column 0 has two     *)
(* bytes that decrypt differently                                             *)
C7_Witness ==
    /\ fc.pc = "returned"
    /\ fc.plain = <<65, 32, 32>>
    /\ fc.K = <<75, 69>>
    /\ fc.charset = {65, 32}
    /\ 75 \in fc.result[1]
    /\ 69 \in fc.result[2]
    /\ fc.result[1] # Byte

----------------------------------------------------------------------------
(* findkeys and findkey *)

(* the candidate lists of a column: lists of distinct characters, ranked *)
EnumLists == {<<>>, <<75>>, <<69>>, <<75, 69>>, <<69, 75>>}

(* itertools.product: the tuple after idx, the rightmost index moving first; *)
(* <<>> when there is none                                                   *)
Advance(pools, idx) ==
    LET movable == {i \in 1..Len(pools) : idx[i] + 1 < Len(pools[i])}
    IN IF movable = {} THEN <<>>
       ELSE LET i == Max(movable)
            IN [m \in 1..Len(pools) |->
                    IF m < i THEN idx[m] ELSE IF m = i THEN idx[m] + 1 ELSE 0]

(* the first tuple of itertools.product, <<>> when a pool is empty *)
FirstIdx(pools) ==
    IF \E i \in 1..Len(pools) : Len(pools[i]) = 0 THEN <<>>
    ELSE [m \in 1..Len(pools) |-> 0]

(* ''.join of the tuple at idx *)
JoinAt(pools, idx) == [m \in 1..Len(pools) |-> pools[m][idx[m] + 1]]

InitEnum ==
    /\ \E L \in 1..MaxEnumCols :
         \E cl \in [1..L -> EnumLists], gs \in BOOLEAN, who \in {"findkeys", "findkey"} :
            fk = [pc |-> "ready",
                  caller |-> who,
                  char_list |-> cl,
                  generator_stop |-> gs,   \* the interpreter applies PEP 479
                  idx |-> FirstIdx(cl),    \* iter_prod's next tuple
                  produced |-> <<>>,       \* the keys yielded so far
                  result |-> <<>>]
    /\ kp = Idle /\ fc = Idle /\ fl = Idle /\ fa = Idle
    /\ ciphertext = <<>> /\ keylen = 0 /\ crib = <<>> /\ cribindex = 0
    /\ key = <<>> /\ curr_key = <<>> /\ report = "" /\ status = "idle"

fkOthers == <<ciphertext, keylen, crib, cribindex, key, curr_key, report, status,
              kp, fc, fl, fa>>

(* how next(generator) ends when next(iter_prod) raises StopIteration inside *)
(* key_generator: the generator just ends, or, under PEP 479, RuntimeError   *)
Exhausted(gs) == IF gs THEN "RuntimeError" ELSE "StopIteration"

(* next() on the generator of findkeys, by its consumer *)
FKNext ==
    /\ fk.pc = "ready"
    /\ fk.caller = "findkeys"
    /\ UNCHANGED fkOthers
    /\ IF fk.idx = <<>> THEN
            fk' = [fk EXCEPT !.pc = Exhausted(fk.generator_stop)]
       ELSE fk' = [fk EXCEPT
                !.produced = Append(fk.produced, JoinAt(fk.char_list, fk.idx)),
                !.idx = Advance(fk.char_list, fk.idx)]

(* findkey: the first key, None on StopIteration *)
FindKey ==
    /\ fk.pc = "ready"
    /\ fk.caller = "findkey"
    /\ UNCHANGED fkOthers
    /\ IF fk.idx = <<>> THEN
            IF Exhausted(fk.generator_stop) = "StopIteration"
            THEN fk' = [fk EXCEPT !.pc = "returned None"]
            ELSE fk' = [fk EXCEPT !.pc = "RuntimeError"]
       ELSE fk' = [fk EXCEPT
                !.pc = "returned",
                !.result = JoinAt(fk.char_list, fk.idx),
                !.idx = Advance(fk.char_list, fk.idx)]

NextEnum == FKNext \/ FindKey

SpecEnum == InitEnum /\ [][NextEnum]_vars

----------------------------------------------------------------------------
(* Claims about findkeys and findkey *)

RECURSIVE ProductFrom(_, _)
ProductFrom(pools, i) ==
    IF i > Len(pools) THEN 1 ELSE Len(pools[i]) * ProductFrom(pools, i + 1)

(* the key whose per-column ranks are the digits of n, last column fastest *)
KeyOfRank(pools, n) ==
    [m \in 1..Len(pools) |->
        pools[m][((n \div ProductFrom(pools, m + 1)) % Len(pools[m])) + 1]]

(* C9: pulling keys yields exactly |C_0| * ... * |C_{L-1}| keys and then     *)
(* ends; the keys come in lexicographic order of their rank tuples, the last *)
(* column varying fastest, the first being (C_0[0], ..., C_{L-1}[0]); when a *)
(* column has no candidate the sequence is empty and findFirst reports       *)
(* absence, not a key and not a fault.                                       *)
C9_Enumeration ==
    fk.pc # "idle" =>
        LET total == ProductFrom(fk.char_list, 1) IN
        /\ fk.pc # "RuntimeError"
        /\ Len(fk.produced) <= total
        /\ \A n \in 1..Len(fk.produced) :
              fk.produced[n] = KeyOfRank(fk.char_list, n - 1)
        /\ fk.pc = "StopIteration" => Len(fk.produced) = total
        /\ fk.pc = "returned" =>
              (total > 0 /\ fk.result = KeyOfRank(fk.char_list, 0))
        /\ fk.pc = "returned None" => total = 0

----------------------------------------------------------------------------
(* findkeylen *)

(* egcd: (g, x, y) *)
RECURSIVE egcd(_, _)
egcd(a, b) ==
    IF a = 0 THEN <<b, 0, 1>>
    ELSE LET r == egcd(b % a, a)
         IN <<r[1], r[3] - (b \div a) * r[2], r[2]>>

(* len_score_list[:TOPN], the lengths only *)
TopnLengths(lengths, topn) ==
    SubSeq(lengths, 1, IF topn < Len(lengths) THEN topn ELSE Len(lengths))

(* the pair after (a, b) in itertools.combinations(range(n), 2), 0-based;     *)
(* <<>> after the last one                                                    *)
NextPair(a, b, n) ==
    IF b + 1 < n THEN <<a, b + 1>>
    ELSE IF a + 2 < n THEN <<a + 1, a + 2>>
    ELSE <<>>

FirstPair(n) == IF n >= 2 THEN <<0, 1>> ELSE <<>>

CountedAgain(occ, g) == [d \in DOMAIN occ \cup {g} |-> 1]

(* gcd_occurences[gcd] = 1, or += 1 *)
Counted(occ, g) ==
    [d \in DOMAIN occ \cup {g} |->
        IF d = g THEN (IF g \in DOMAIN occ THEN occ[g] + 1 ELSE 1) ELSE occ[d]]

(* the scored lists findkeylen_all returns: each length 1..m once *)
ScoredOrders(m) ==
    {f \in [1..m -> 1..m] : \A i, j \in 1..m : f[i] = f[j] => i = j}

InitResolver ==
    /\ \E m \in 0..MaxLengths :
         \E lengths \in ScoredOrders(m), topn \in 0..(m + 1) :
            fl = [pc |-> "pairs",
                  lengths |-> lengths,
                  topn |-> topn,
                  topn_lengths |-> TopnLengths(lengths, topn),
                  pair |-> FirstPair(Len(TopnLengths(lengths, topn))),
                  gcd_occurences |-> <<>>,
                  result |-> 0]
    /\ kp = Idle /\ fc = Idle /\ fk = Idle /\ fa = Idle
    /\ ciphertext = <<>> /\ keylen = 0 /\ crib = <<>> /\ cribindex = 0
    /\ key = <<>> /\ curr_key = <<>> /\ report = "" /\ status = "idle"

flOthers == <<ciphertext, keylen, crib, cribindex, key, curr_key, report, status,
              kp, fc, fk, fa>>

(* one pair of itertools.combinations(topn_lengths, 2) *)
FLPair ==
    /\ fl.pc = "pairs"
    /\ fl.pair # <<>>
    /\ UNCHANGED flOthers
    /\ LET len1 == fl.topn_lengths[fl.pair[1] + 1]
           len2 == fl.topn_lengths[fl.pair[2] + 1]
           gcd == egcd(len1, len2)[1]
       IN fl' = [fl EXCEPT
                !.gcd_occurences = IF gcd # 1 THEN Counted(fl.gcd_occurences, gcd)
                                   ELSE fl.gcd_occurences,
                !.pair = NextPair(fl.pair[1], fl.pair[2], Len(fl.topn_lengths))]

(* max(gcd_occurences.keys(), key=...): ValueError on no key; among the keys  *)
(* with the most votes the one the dictionary iterates first                  *)
FLReturn ==
    /\ fl.pc = "pairs"
    /\ fl.pair = <<>>
    /\ UNCHANGED flOthers
    /\ IF DOMAIN fl.gcd_occurences = {} THEN
            fl' = [fl EXCEPT !.pc = "ValueError"]
       ELSE \E g \in DOMAIN fl.gcd_occurences :
                /\ \A d \in DOMAIN fl.gcd_occurences :
                        fl.gcd_occurences[d] <= fl.gcd_occurences[g]
                /\ fl' = [fl EXCEPT !.pc = "returned", !.result = g]

NextResolver == FLPair \/ FLReturn

SpecResolver == InitResolver /\ [][NextResolver]_vars

----------------------------------------------------------------------------
(* findkeylen_all *)

RECURSIVE BitCount(_, _)
BitCount(x, n) == IF n = 0 THEN 0 ELSE (x % 2) + BitCount(x \div 2, n - 1)

RECURSIVE hamming_distance(_, _)
hamming_distance(a, b) ==
    IF Len(a) = 0 THEN 0
    ELSE BitCount(xor(Head(a), Head(b)), ByteBits) + hamming_distance(Tail(a), Tail(b))

(* utils.blockify: the chunks of n characters, the last one maybe shorter *)
blockify(ct, n) ==
    [m \in 1..((Len(ct) + n - 1) \div n) |->
        SubSeq(ct, (m - 1) * n + 1, IF m * n < Len(ct) THEN m * n ELSE Len(ct))]

(* filter(lambda b: len(b) == keylen, blocks) *)
FullBlocks(ct, n) == SelectSeq(blockify(ct, n), LAMBDA b : Len(b) = n)

(* the cap checked one pair late *)
CapPassed(n, maxcompperlen) == n > maxcompperlen

(* "if n_comparisons >= maxcompperlen: break" *)
CapReached(n, maxcompperlen) == n >= maxcompperlen

(* score a < score b, the scores being total / n / keylen; an entry is      *)
(* <<keylen, total_distance, n_comparisons>>                                *)
ScoreLess(a, b) == a[2] * (b[3] * b[1]) < b[2] * (a[3] * a[1])

(* sorted(len_score_list, key=score): stable *)
RECURSIVE Sorted(_)
Sorted(l) ==
    IF Len(l) = 0 THEN <<>>
    ELSE LET rest == Sorted(SubSeq(l, 1, Len(l) - 1))
             x == l[Len(l)]
             before == Cardinality({i \in 1..Len(rest) : ~ ScoreLess(x, rest[i])})
         IN SubSeq(rest, 1, before) \o <<x>> \o SubSeq(rest, before + 1, Len(rest))

HamBytes == {31, 13}

InitHamming ==
    /\ \E n \in 0..MaxHamLen :
         \E ct \in [1..n -> HamBytes], mc \in (-1)..MaxComp :
            fa = [pc |-> "for",
                  ciphertext |-> ct,
                  maxcompperlen |-> mc,
                  keylen |-> 0,             \* the candidate length at hand
                  blocks |-> <<>>,
                  pair |-> <<>>,            \* the next pair of blocks
                  total_distance |-> 0,
                  n_comparisons |-> 0,
                  len_score_list |-> <<>>,
                  result |-> <<>>]
    /\ kp = Idle /\ fc = Idle /\ fk = Idle /\ fl = Idle
    /\ ciphertext = <<>> /\ keylen = 0 /\ crib = <<>> /\ cribindex = 0
    /\ key = <<>> /\ curr_key = <<>> /\ report = "" /\ status = "idle"

faOthers == <<ciphertext, keylen, crib, cribindex, key, curr_key, report, status,
              kp, fc, fk, fl>>

(* the next keylen of range(1, len(ciphertext) // 2 + 1): its full blocks *)
FALength ==
    /\ fa.pc = "for"
    /\ fa.keylen + 1 <= Len(fa.ciphertext) \div 2
    /\ UNCHANGED faOthers
    /\ LET blocks == FullBlocks(fa.ciphertext, fa.keylen + 1)
       IN fa' = [fa EXCEPT
                !.pc = IF FirstPair(Len(blocks)) = <<>> THEN "score" ELSE "pairs",
                !.keylen = fa.keylen + 1,
                !.blocks = blocks,
                !.pair = FirstPair(Len(blocks)),
                !.total_distance = 0,
                !.n_comparisons = 0]

(* one pair of itertools.combinations(blocks, 2) *)
FAPair ==
    /\ fa.pc = "pairs"
    /\ UNCHANGED faOthers
    /\ LET n == fa.n_comparisons + 1
           nxt == NextPair(fa.pair[1], fa.pair[2], Len(fa.blocks))
       IN fa' = [fa EXCEPT
                !.total_distance = fa.total_distance
                    + hamming_distance(fa.blocks[fa.pair[1] + 1], fa.blocks[fa.pair[2] + 1]),
                !.n_comparisons = n,
                !.pair = nxt,
                !.pc = IF CapReached(n, fa.maxcompperlen) \/ nxt = <<>>
                       THEN "score" ELSE "pairs"]

(* float(total_distance) / n_comparisons, and the entry of the length *)
FAScore ==
    /\ fa.pc = "score"
    /\ UNCHANGED faOthers
    /\ IF fa.n_comparisons = 0 THEN
            fa' = [fa EXCEPT !.pc = "ZeroDivisionError"]
       ELSE fa' = [fa EXCEPT
                !.pc = "for",
                !.len_score_list = Append(fa.len_score_list,
                    <<fa.keylen, fa.total_distance, fa.n_comparisons>>)]

FAReturn ==
    /\ fa.pc = "for"
    /\ fa.keylen + 1 > Len(fa.ciphertext) \div 2
    /\ UNCHANGED faOthers
    /\ fa' = [fa EXCEPT !.pc = "returned", !.result = Sorted(fa.len_score_list)]

NextHamming == FALength \/ FAPair \/ FAScore \/ FAReturn

SpecHamming == InitHamming /\ [][NextHamming]_vars

----------------------------------------------------------------------------
(* Claims about findkeylen_all *)

(* the full blocks of length L the ciphertext holds *)
NFullBlocks(L) == Len(fa.ciphertext) \div L

NPairs(L) == (NFullBlocks(L) * (NFullBlocks(L) - 1)) \div 2

(* C10: no division faults: a length with fewer than 2 full blocks is never   *)
(* scored, every candidate length has at least one pair counted before the    *)
(* average is taken, the pairs counted are min(maxComparisonsPerLength, the   *)
(* unordered pairs of full blocks) when maxComparisonsPerLength >= 1, and the *)
(* result holds exactly one entry for each L in 1..floor(len / 2), also for   *)
(* the lengths 0 and 1.                                                       *)
C10_NoDivisionFault ==
    fa.pc # "idle" =>
        /\ fa.pc # "ZeroDivisionError"
        /\ fa.pc = "score" =>
              /\ NFullBlocks(fa.keylen) >= 2
              /\ Len(fa.blocks) = NFullBlocks(fa.keylen)
              /\ fa.n_comparisons >= 1
              /\ fa.maxcompperlen >= 1 =>
                    fa.n_comparisons = Min({fa.maxcompperlen, NPairs(fa.keylen)})
        /\ \A e \in 1..Len(fa.len_score_list) :
              /\ fa.len_score_list[e][1] = e
              /\ fa.len_score_list[e][3] >= 1
        /\ fa.pc = "returned" =>
              /\ Len(fa.result) = Len(fa.ciphertext) \div 2
              /\ \A L \in 1..(Len(fa.ciphertext) \div 2) :
                    Cardinality({e \in 1..Len(fa.result) : fa.result[e][1] = L}) = 1

(* six bytes, cap 2: length 1 stops at the cap, length 3 at its only pair *)
C10_Witness ==
    /\ fa.pc = "returned"
    /\ Len(fa.ciphertext) = 6
    /\ fa.maxcompperlen = 2
    /\ Len(fa.result) = 3
    /\ \E e \in 1..3 : fa.result[e][1] = 1 /\ fa.result[e][3] = 2
    /\ \E e \in 1..3 : fa.result[e][1] = 3 /\ fa.result[e][3] = 1

----------------------------------------------------------------------------
(* Claims about findkeylen *)

(* the unordered pairs of the first topN lengths, by their places in the list *)
TopPairs ==
    LET n == Min({fl.topn, Len(fl.lengths)})
    IN {pr \in (1..n) \X (1..n) : pr[1] < pr[2]}

(* the pairs whose greatest common divisor is d *)
Votes(d) ==
    Cardinality({pr \in TopPairs : Gcd(fl.lengths[pr[1]], fl.lengths[pr[2]]) = d})

(* C8: resolve considers only the first topN lengths, gives gcd(a, b) one     *)
(* vote for each unordered pair {a, b} of them whose gcd is not 1, and        *)
(* returns a g >= 2 with the most votes; when every pairwise gcd is 1, or     *)
(* there are fewer than two candidates, it fails and returns nothing.         *)
C8_Resolve ==
    fl.pc # "idle" =>
        /\ (fl.pc = "pairs" /\ fl.pair = <<>>) =>
              /\ 1 \notin DOMAIN fl.gcd_occurences
              /\ \A d \in 2..(Len(fl.lengths) + 1) :
                    IF Votes(d) = 0 THEN d \notin DOMAIN fl.gcd_occurences
                    ELSE d \in DOMAIN fl.gcd_occurences
                            /\ fl.gcd_occurences[d] = Votes(d)
        /\ fl.pc = "returned" =>
              /\ fl.result >= 2
              /\ Votes(fl.result) >= 1
              /\ \A d \in 2..(Len(fl.lengths) + 1) : Votes(d) <= Votes(fl.result)
        /\ fl.pc = "ValueError" =>
              \A pr \in TopPairs : Gcd(fl.lengths[pr[1]], fl.lengths[pr[2]]) = 1

(* the lengths 2, 4, 6, 3 first: three votes for 2, one for 3 *)
C8_Witness ==
    /\ fl.pc = "returned"
    /\ fl.topn = 4
    /\ SubSeq(fl.lengths, 1, 4) = <<2, 4, 6, 3>>
    /\ fl.result = 2
    /\ DOMAIN fl.gcd_occurences = {2, 3}
    /\ fl.gcd_occurences[2] = 3
    /\ fl.gcd_occurences[3] = 1

----------------------------------------------------------------------------
(* Claims about keyinplaintext *)

AllSlots(L) == 0..(L - 1)

(* the run is one of the claim: the plaintext holds K at keyIndex, gcd 1,   *)
(* the ciphertext is the plaintext XOR K repeated, the seed is correct      *)
RecoverPre ==
    /\ kp.keylen >= 2
    /\ Len(kp.K) = kp.keylen
    /\ Gcd(kp.keyindex, kp.keylen) = 1
    /\ Len(kp.plain) >= kp.keyindex + kp.keylen
    /\ \A i \in 0..(kp.keylen - 1) : kp.plain[kp.keyindex + i + 1] = kp.K[i + 1]
    /\ Len(kp.ciphertext) = Len(kp.plain)
    /\ \A p \in 1..Len(kp.plain) :
          kp.ciphertext[p] = xor(kp.plain[p], kp.K[((p - 1) % kp.keylen) + 1])
    /\ kp.seedindex < Len(kp.plain)
    /\ kp.seed = kp.plain[kp.seedindex + 1]

(* C4: with the XOR combiner, a key K of length L >= 2, gcd(keyIndex, L) = 1, *)
(* a plaintext holding K at keyIndex..keyIndex+L-1 and a correct seed at any  *)
(* seedIndex, recover raises nothing and returns exactly K.                   *)
C4_RecoverReturnsKey ==
    (kp.pc # "idle" /\ RecoverPre) =>
        /\ kp.pc \in {"start", "loop", "returned"}
        /\ kp.pc = "returned" => kp.key = kp.K

C4_Witness ==
    /\ kp.pc = "returned"
    /\ RecoverPre
    /\ kp.keylen = 4
    /\ kp.keyindex = 3
    /\ kp.seedindex = 6
    /\ kp.key = <<75, 69, 89, 83>>

OrbitUpTo(t) ==
    {(kp.seedindex + j * kp.keyindex) % kp.keylen : j \in 0..t}

C5_Rounds ==
    (kp.pc # "idle" /\ kp.keyindex % kp.keylen # 0) =>
        /\ kp.pc = "loop" => Known(kp.key) = OrbitUpTo(kp.round)
        /\ (kp.pc = "loop" /\ kp.round = kp.keylen) =>
              ((Known(kp.key) # AllSlots(kp.keylen))
                    <=> (Gcd(kp.keyindex, kp.keylen) # 1))
        /\ kp.pc = "returned" =>
              (kp.round = kp.keylen /\ Known(kp.key) = AllSlots(kp.keylen))
        /\ kp.pc \in {"AssertionError", "TypeError"} =>
              (kp.round = kp.keylen /\ Known(kp.key) # AllSlots(kp.keylen))

(* C5: when keyIndex mod keyLength # 0, a known slot never becomes unknown,   *)
(* after round t the known slots are exactly {(seedIndex + j*keyIndex) mod    *)
(* keyLength : 0 <= j <= t}, and after keyLength rounds recover fails if and  *)
(* only if a slot is still unknown, which is exactly when                     *)
(* gcd(keyIndex, keyLength) # 1.                                              *)
C5_Propagation ==
    /\ []C5_Rounds
    /\ [][ (kp.pc = "loop" /\ kp.keyindex % kp.keylen # 0) =>
              \A j \in Known(kp.key) : kp'.key[j + 1] # None ]_vars

(* keyLength 4, keyIndex 2: the seed's slot 1 reaches slot 3 only *)
C5_Witness ==
    /\ kp.pc = "AssertionError"
    /\ kp.keylen = 4
    /\ kp.keyindex = 2
    /\ kp.round = 4
    /\ Known(kp.key) = {1, 3}

----------------------------------------------------------------------------
(* Claims about the session *)

KeyUpdatedByOk == "Key updated: / Crib reset."

(* the crib at cribindex covers key slot j (1-based) through its offset i *)
Covers(i, j) == i \in 0..(Len(crib) - 1) /\ (cribindex + i) % keylen = j - 1

(* C1: a commit ("ok") sets key slot (cribIndex + i) mod keyLength to          *)
(* deriveKey(ciphertext[cribIndex + i], crib[i]) for every i below len(crib),  *)
(* leaves every other slot as it was, empties the crib and sets cribIndex to   *)
(* 0; and a commit of the crib P[0..keyLength) at index 0 leaves the key K     *)
(* under which the crib encrypts to the ciphertext.                            *)
C1_CommitEffect ==
    [][ (status = "running" /\ report' = KeyUpdatedByOk) =>
          /\ \A i \in 0..(Len(crib) - 1) :
                key'[((cribindex + i) % keylen) + 1]
                    = xor(ciphertext[cribindex + i + 1], crib[i + 1])
          /\ \A j \in 1..keylen :
                (~ \E i \in 0..(Len(crib) - 1) : Covers(i, j)) => key'[j] = key[j]
          /\ Len(key') = keylen
          /\ crib' = <<>>
          /\ cribindex' = 0
          /\ (cribindex = 0 /\ Len(crib) = keylen) =>
                \A i \in 1..keylen : xor(crib[i], key'[i]) = ciphertext[i]
      ]_vars

(* a commit of the crib "T" at index 1 over the typed key ['K', None] *)
C1_Witness ==
    /\ report = KeyUpdatedByOk
    /\ keylen = 2
    /\ key = <<75, xor(SampleCipher[2], 84)>>
    /\ crib = <<>>

(* C2: the session ends only through quit: no command ends it with an          *)
(* exception.                                                                  *)
C2_EndsOnlyByQuit == status \in {"running", "returned"}

(* C3: after every state-changing command (set-crib, next, prev, jump, commit, *)
(* set-key, reset) the preview key curr_key is the derivation for the current  *)
(* (crib, cribIndex) merged over the permanent key.                            *)
C3_PreviewLive ==
    (status = "running"
       /\ report \in {"shown", KeyUpdatedByOk, "Key updated.",
                       "Crib and key have been reset."}) =>
        /\ Len(curr_key) = keylen
        /\ \A j \in 1..keylen :
              /\ \A i \in 0..(Len(crib) - 1) :
                    Covers(i, j) =>
                        curr_key[j] = xor(ciphertext[cribindex + i + 1], crib[i + 1])
              /\ (~ \E i \in 0..(Len(crib) - 1) : Covers(i, j)) => curr_key[j] = key[j]


(* C11: in every state of the session len(crib) <= keylen and                  *)
(* 0 <= cribindex <= len(ciphertext) - len(crib), so the derivation of getkey  *)
(* never reads a position cribindex + i outside the ciphertext, and cribindex  *)
(* is nonzero only while a crib is set.                                        *)
C11_IndexInvariant ==
    status # "idle" =>
        /\ Len(crib) <= keylen
        /\ 0 <= cribindex
        /\ cribindex <= Len(ciphertext) - Len(crib)
        /\ ~ GetkeyRaises(ciphertext, crib, cribindex)
        /\ status # "IndexError"
        /\ cribindex # 0 => crib # <<>>


(* what the session prints when it turns a command down, and for help and show *)
Rejections ==
    {"Couldn't parse the crib!", "The crib must be a string!",
     "The crib is longer than the key!", "You need to set a crib.",
     "Can't increase the index or the crib won't fit.",
     "Can't set the index at less than 0.",
     "The index must be a positive number.",
     "That index is too big, the crib won't fit.",
     "Couldn't parse the key!", "The argument must be passed as a list!",
     "The key must be keylen characters long!", "Command not recognized.",
     "Commands:", "plaintext"}

(* C12: a command that is reported to the operator as an error (and show and   *)
(* help) leaves key, crib and cribindex as they were before the command.       *)
C12_RejectedKeepState ==
    [][(status = "running" /\ report' \in Rejections)
          => UNCHANGED <<key, crib, cribindex>>]_vars

====
